---- MODULE Spec2Model ----
(***************************************************************************)
(* Conway's Game of Life (rfpludwick/game-of-life).                        *)
(*                                                                         *)
(* The repository holds two near-identical programs:                       *)
(*   variant 1: src/main.go   (CLI flags only)                             *)
(*   variant 2: the program listed in src/README.md from line 55 on        *)
(*              (configuration file + CLI flags, configurable rules)       *)
(* Both are modelled by the same state machine; `variant` selects the      *)
(* code path where the two differ.                                         *)
(*                                                                         *)
(* Text (input lines, flag values, output lines) is a sequence of          *)
(* one-character strings.  int64 is scaled down to IntBits bits.           *)
(***************************************************************************)
EXTENDS Integers, Sequences, FiniteSets, TLC

VARIABLES
    variant,                \* 1 = src/main.go, 2 = program of src/README.md
    pc,                     \* position of the main goroutine
    cf,                     \* the configuration file on disk (variant 2)
    disk,                   \* the files on disk: name -> bytes held
    stdin,                  \* the input stream, where a run is given one as
                            \* a whole: its lines and how many were read
    flagConfigurationFile,  \* TRUE when -configuration names the file
    flagTicks,
    flagWraparound,         \* variant 1: -wraparound
    flagDisableWraparound,  \* variant 2: -nowrap
    flagWorldDimensions,
    flagNewLifeSpawn,
    flagExistingLifeRemain,
    flagOutputDirectory,
    flagOutputFile,
    appTicks,
    appWraparound,
    appNewLifeSpawn,
    appExistingLifeRemain,
    appOutputDirectory,
    appOutputFile,
    worldMinX,
    worldMaxX,
    worldMinY,
    worldMaxY,
    ticksDigitsLength,
    organisms,              \* map[int64]map[int64]int of the current generation
    organismsNext,          \* main: the map the tick under way writes to
    visited,                \* the entries the range loops of the tick under
                            \* way have visited, where a tick is taken entry
                            \* by entry
    tick,                   \* loop counter of main
    outputDirectory,        \* per-tick files written: sequence of [name, content]
    output,                 \* writes to the final sink: sequence of contents
    generations,            \* history: generation 0, 1, ... as computed so far
    lookups                 \* history: per entry of the generation last ticked,
                            \* the coordinates handed to hasLife, in call order

flagVars == <<flagConfigurationFile, flagTicks, flagWraparound, flagDisableWraparound,
              flagWorldDimensions, flagNewLifeSpawn, flagExistingLifeRemain,
              flagOutputDirectory, flagOutputFile>>
appVars == <<appTicks, appWraparound, appNewLifeSpawn, appExistingLifeRemain,
             appOutputDirectory, appOutputFile>>
worldVars == <<worldMinX, worldMaxX, worldMinY, worldMaxY>>
runVars == <<organisms, tick, outputDirectory, output, generations, lookups>>
stepVars == <<organismsNext, visited>>
vars == <<variant, pc, cf, disk, stdin, flagVars, appVars, worldVars, ticksDigitsLength, runVars,
          stepVars>>

----------------------------------------------------------------------------
(* Bounds of the model *)

\* width of the machine integer standing for int64
IntBits == 3
\* largest number of live cells the input seeds
MaxSeeds == 3
\* largest value given to -ticks in the engine specification
MaxTicks == 2

\* largest value given to -ticks in the block specification
MaxBlockTicks == 4
\* largest value given to -ticks in the glider specification
MaxGliderTicks == 20

\* -ticks default of variant 1 and appTicks default of variant 2
DefaultTicks == 10

MinInt64 == -(2 ^ (IntBits - 1))
MaxInt64 == (2 ^ (IntBits - 1)) - 1
Int64 == MinInt64 .. MaxInt64

\* two's complement wrap of an int64 result
Wrap64(n) == ((n - MinInt64) % (2 ^ IntBits)) + MinInt64

----------------------------------------------------------------------------
(* Text helpers: strconv, strings, fmt *)

DigitChar == <<"0", "1", "2", "3", "4", "5", "6", "7", "8", "9">>

RECURSIVE Digits(_)
Digits(n) == IF n < 10 THEN <<DigitChar[n + 1]>>
             ELSE Digits(n \div 10) \o <<DigitChar[(n % 10) + 1]>>

\* fmt verb %d
FormatInt(n) == IF n < 0 THEN <<"-">> \o Digits(-n) ELSE Digits(n)

RECURSIVE Zeros(_)
Zeros(k) == IF k <= 0 THEN <<>> ELSE <<"0">> \o Zeros(k - 1)

\* fmt verb %0<width>d of an unsigned value
FormatPadded(n, width) == Zeros(width - Len(Digits(n))) \o Digits(n)

DigitValue(c) == CHOOSE d \in 0..9 : DigitChar[d + 1] = c

IsDigit(c) == \E d \in 0..9 : DigitChar[d + 1] = c

RECURSIVE DigitsValue(_)
DigitsValue(s) == IF s = <<>> THEN 0
                  ELSE 10 * DigitsValue(SubSeq(s, 1, Len(s) - 1)) + DigitValue(s[Len(s)])

\* strconv.ParseInt(s, 10, 64): optional sign, one or more digits, in range
ParseInt(s) ==
    LET signed == s # <<>> /\ s[1] \in {"-", "+"}
        body   == IF signed THEN Tail(s) ELSE s
        wellFormed == body # <<>> /\ \A i \in 1..Len(body) : IsDigit(body[i])
        magnitude == IF wellFormed THEN DigitsValue(body) ELSE 0
        value  == IF signed /\ s[1] = "-" THEN -magnitude ELSE magnitude
    IN  IF ~wellFormed THEN [ok |-> FALSE, value |-> 0]
        ELSE IF value > MaxInt64 THEN [ok |-> FALSE, value |-> MaxInt64]
        ELSE IF value < MinInt64 THEN [ok |-> FALSE, value |-> MinInt64]
        ELSE [ok |-> TRUE, value |-> value]

IsSpace(c) == c \in {" ", "\t"}

RECURSIVE TrimLeft(_)
TrimLeft(s) == IF s # <<>> /\ IsSpace(s[1]) THEN TrimLeft(Tail(s)) ELSE s

RECURSIVE TrimRight(_)
TrimRight(s) == IF s # <<>> /\ IsSpace(s[Len(s)])
                THEN TrimRight(SubSeq(s, 1, Len(s) - 1)) ELSE s

\* strings.TrimSpace
TrimSpace(s) == TrimRight(TrimLeft(s))

\* strings.Split(s, sep) for a one-character separator
RECURSIVE Split(_, _)
Split(s, sep) ==
    IF \A i \in 1..Len(s) : s[i] # sep THEN <<s>>
    ELSE LET k == CHOOSE i \in 1..Len(s) : s[i] = sep /\ \A j \in 1..(i - 1) : s[j] # sep
         IN  <<SubSeq(s, 1, k - 1)>> \o Split(SubSeq(s, k + 1, Len(s)), sep)

\* strings joined by a separator
RECURSIVE Join(_, _)
Join(parts, sep) == IF Len(parts) = 0 THEN <<>>
                    ELSE IF Len(parts) = 1 THEN parts[1]
                    ELSE parts[1] \o sep \o Join(Tail(parts), sep)

\* ascending order of a finite set of integers (sort.Slice with keys[l] < keys[r])
RECURSIVE SortAscending(_)
SortAscending(S) == IF S = {} THEN <<>>
                    ELSE LET m == CHOOSE a \in S : \A b \in S : a <= b
                         IN  <<m>> \o SortAscending(S \ {m})

Reverse(s) == [i \in 1..Len(s) |-> s[Len(s) + 1 - i]]

RECURSIVE SumSeq(_)
SumSeq(s) == IF s = <<>> THEN 0 ELSE s[1] + SumSeq(Tail(s))

RECURSIVE Flatten(_)
Flatten(ss) == IF ss = <<>> THEN <<>> ELSE ss[1] \o Flatten(Tail(ss))

----------------------------------------------------------------------------
(* Configuration the engine reads: variant 1 reads the flag globals,        *)
(* variant 2 the app globals                                                *)

Wraparound == IF variant = 1 THEN flagWraparound ELSE appWraparound
Ticks == IF variant = 1 THEN flagTicks ELSE appTicks
OutputDirectory == IF variant = 1 THEN flagOutputDirectory ELSE appOutputDirectory
OutputFile == IF variant = 1 THEN flagOutputFile ELSE appOutputFile

----------------------------------------------------------------------------
(* Neighbor resolver *)

\* getNeighborsX with the wrap at the minimum resolved to the minimum itself
getNeighborsXWrapToMin(coordX) ==
    [left  |-> IF coordX = worldMinX
               THEN (IF Wraparound THEN worldMinX ELSE 0)
               ELSE Wrap64(coordX - 1),
     leftExists  |-> ~(coordX = worldMinX /\ ~Wraparound),
     right |-> IF coordX = worldMaxX
               THEN (IF Wraparound THEN worldMinX ELSE 0)
               ELSE Wrap64(coordX + 1),
     rightExists |-> ~(coordX = worldMaxX /\ ~Wraparound)]

\* getNeighborsX stepping by one at the edges of the world too
getNeighborsXAlwaysStep(coordX) ==
    [left  |-> Wrap64(coordX - 1),
     leftExists  |-> ~(coordX = worldMinX /\ ~Wraparound),
     right |-> Wrap64(coordX + 1),
     rightExists |-> ~(coordX = worldMaxX /\ ~Wraparound)]

\* getNeighborsX: a neighbor that does not exist keeps the zero value
getNeighborsX(coordX) ==
    [left  |-> IF coordX = worldMinX
               THEN (IF Wraparound THEN worldMaxX ELSE 0)
               ELSE Wrap64(coordX - 1),
     leftExists  |-> ~(coordX = worldMinX /\ ~Wraparound),
     right |-> IF coordX = worldMaxX
               THEN (IF Wraparound THEN worldMinX ELSE 0)
               ELSE Wrap64(coordX + 1),
     rightExists |-> ~(coordX = worldMaxX /\ ~Wraparound)]

\* getNeighborsY without the hard edge at the minimum
getNeighborsYNoBottomEdge(coordY) ==
    [bottom |-> IF coordY = worldMinY /\ Wraparound
                THEN worldMaxY
                ELSE Wrap64(coordY - 1),
     bottomExists |-> TRUE,
     top    |-> IF coordY = worldMaxY
                THEN (IF Wraparound THEN worldMinY ELSE 0)
                ELSE Wrap64(coordY + 1),
     topExists    |-> ~(coordY = worldMaxY /\ ~Wraparound)]

getNeighborsY(coordY) ==
    [bottom |-> IF coordY = worldMinY
                THEN (IF Wraparound THEN worldMaxY ELSE 0)
                ELSE Wrap64(coordY - 1),
     bottomExists |-> ~(coordY = worldMinY /\ ~Wraparound),
     top    |-> IF coordY = worldMaxY
                THEN (IF Wraparound THEN worldMinY ELSE 0)
                ELSE Wrap64(coordY + 1),
     topExists    |-> ~(coordY = worldMaxY /\ ~Wraparound)]

----------------------------------------------------------------------------
(* Sparse live set: organisms[x][y] is 1 (alive) or 0 (tracked dead) *)

EmptyOrganisms == [x \in {} |-> [y \in {} |-> 0]]

HasEntry(org, coordX, coordY) == coordX \in DOMAIN org /\ coordY \in DOMAIN org[coordX]

\* hasLife reporting life for every coordinate that has an entry
hasLifeAnyEntry(org, coordX, coordY) ==
    IF HasEntry(org, coordX, coordY) THEN 1 ELSE 0

\* hasLife: the stored value, 0 for a coordinate without an entry
hasLife(org, coordX, coordY) ==
    IF HasEntry(org, coordX, coordY) THEN org[coordX][coordY] ELSE 0

\* a lookup that creates the entry it does not find
hasLifeCallInserting(org, coordX, coordY) ==
    LET row == IF coordX \in DOMAIN org THEN org[coordX] ELSE [y \in {} |-> 0]
    IN  [value |-> hasLife(org, coordX, coordY),
         organisms |-> [x \in (DOMAIN org) \cup {coordX} |->
                           IF x = coordX
                           THEN [y \in (DOMAIN row) \cup {coordY} |->
                                    IF y \in DOMAIN row THEN row[y] ELSE 0]
                           ELSE org[x]]]

\* a call of hasLife: the value returned and the map after the call (the
\* two-value index expressions of hasLife read the maps, they assign nothing)
hasLifeCall(org, coordX, coordY) ==
    [value |-> hasLife(org, coordX, coordY), organisms |-> org]

\* addOrganism without the stubs for the neighbors
addOrganismNoStubs(org, coordX, coordY) ==
    LET row == IF coordX \in DOMAIN org THEN org[coordX] ELSE [y \in {} |-> 0]
    IN  [x \in (DOMAIN org) \cup {coordX} |->
            IF x = coordX
            THEN [y \in (DOMAIN row) \cup {coordY} |-> IF y = coordY THEN 1 ELSE row[y]]
            ELSE org[x]]

\* addOrganism writing the stub over an entry that is already there
addOrganismStubsOverwrite(org, coordX, coordY) ==
    LET nx == getNeighborsX(coordX)
        ny == getNeighborsY(coordY)
        setXs == {coordX} \cup (IF nx.leftExists THEN {nx.left} ELSE {})
                          \cup (IF nx.rightExists THEN {nx.right} ELSE {})
        setYs == {coordY} \cup (IF ny.bottomExists THEN {ny.bottom} ELSE {})
                          \cup (IF ny.topExists THEN {ny.top} ELSE {})
        row(x) == IF x \in DOMAIN org THEN org[x] ELSE [y \in {} |-> 0]
        stubbed(x) == [y \in (DOMAIN row(x)) \cup setYs |->
                          IF y \in setYs THEN 0 ELSE row(x)[y]]
        withStubs == [x \in (DOMAIN org) \cup setXs |->
                          IF x \in setXs THEN stubbed(x) ELSE org[x]]
    IN  [withStubs EXCEPT ![coordX][coordY] = 1]

\* addOrganism: stub the existing neighbors that have no entry, then set the cell
addOrganism(org, coordX, coordY) ==
    LET nx == getNeighborsX(coordX)
        ny == getNeighborsY(coordY)
        coordXs == <<coordX>> \o (IF nx.leftExists THEN <<nx.left>> ELSE <<>>)
                              \o (IF nx.rightExists THEN <<nx.right>> ELSE <<>>)
        coordYs == <<coordY>> \o (IF ny.bottomExists THEN <<ny.bottom>> ELSE <<>>)
                              \o (IF ny.topExists THEN <<ny.top>> ELSE <<>>)
        setXs == {coordXs[i] : i \in 1..Len(coordXs)}
        setYs == {coordYs[i] : i \in 1..Len(coordYs)}
        row(x) == IF x \in DOMAIN org THEN org[x] ELSE [y \in {} |-> 0]
        stubbed(x) == [y \in (DOMAIN row(x)) \cup setYs |->
                          IF y \in DOMAIN row(x) THEN row(x)[y] ELSE 0]
        withStubs == [x \in (DOMAIN org) \cup setXs |->
                          IF x \in setXs THEN stubbed(x) ELSE org[x]]
    IN  [withStubs EXCEPT ![coordX][coordY] = 1]

\* the coordinates with an entry
Entries(org) == UNION {{<<x, y>> : y \in DOMAIN org[x]} : x \in DOMAIN org}

AliveSet(org) == {c \in Entries(org) : org[c[1]][c[2]] = 1}

----------------------------------------------------------------------------
(* Tick engine *)

\* the hasLife calls main makes for one entry, in the order of the source
NeighborLookups(coordX, coordY) ==
    LET nx == getNeighborsX(coordX)
        ny == getNeighborsY(coordY)
    IN  (IF nx.leftExists
         THEN <<<<nx.left, coordY>>>>
              \o (IF ny.bottomExists THEN <<<<nx.left, ny.bottom>>>> ELSE <<>>)
              \o (IF ny.topExists THEN <<<<nx.left, ny.top>>>> ELSE <<>>)
         ELSE <<>>)
        \o
        (IF nx.rightExists
         THEN <<<<nx.right, coordY>>>>
              \o (IF ny.bottomExists THEN <<<<nx.right, ny.bottom>>>> ELSE <<>>)
              \o (IF ny.topExists THEN <<<<nx.right, ny.top>>>> ELSE <<>>)
         ELSE <<>>)
        \o (IF ny.bottomExists THEN <<<<coordX, ny.bottom>>>> ELSE <<>>)
        \o (IF ny.topExists THEN <<<<coordX, ny.top>>>> ELSE <<>>)

neighborsAlive(org, coordX, coordY) ==
    LET calls == NeighborLookups(coordX, coordY)
    IN  SumSeq([i \in 1..Len(calls) |-> hasLife(org, calls[i][1], calls[i][2])])

SliceContains(slice, n) == \E i \in 1..Len(slice) : slice[i] = n

\* the decision without the state of the cell: the birth rule for every entry
WillLiveBirthOnly(alive, n) ==
    IF variant = 1 THEN n = 3 ELSE SliceContains(appNewLifeSpawn, n)

\* the decision of main for one entry: variant 1 has the rule written out,
\* variant 2 searches the configured slice
WillLive(alive, n) ==
    IF variant = 1
    THEN n >= 2 /\ n <= 3 /\ (alive = 1 \/ n = 3)
    ELSE IF alive = 1 THEN SliceContains(appExistingLifeRemain, n)
                      ELSE SliceContains(appNewLifeSpawn, n)

\* the range loops carrying an entry that does not live over as tracked-dead
RECURSIVE TickOverKeepingDead(_, _, _)
TickOverKeepingDead(org, next, order) ==
    IF order = <<>> THEN next
    ELSE LET coordX == order[1][1]
             coordY == order[1][2]
             n == neighborsAlive(org, coordX, coordY)
             row == IF coordX \in DOMAIN next THEN next[coordX] ELSE [y \in {} |-> 0]
             kept == [x \in (DOMAIN next) \cup {coordX} |->
                         IF x = coordX
                         THEN [y \in (DOMAIN row) \cup {coordY} |->
                                  IF y \in DOMAIN row THEN row[y] ELSE 0]
                         ELSE next[x]]
         IN  TickOverKeepingDead(org,
                                 IF WillLive(org[coordX][coordY], n)
                                 THEN addOrganism(next, coordX, coordY) ELSE kept,
                                 Tail(order))

\* the body of the range loops for the entries in `order`
RECURSIVE TickOver(_, _, _)
TickOver(org, next, order) ==
    IF order = <<>> THEN next
    ELSE LET coordX == order[1][1]
             coordY == order[1][2]
             n == neighborsAlive(org, coordX, coordY)
         IN  TickOver(org,
                      IF WillLive(org[coordX][coordY], n)
                      THEN addOrganism(next, coordX, coordY) ELSE next,
                      Tail(order))

\* the entries of the map-of-maps, outer keys then inner keys, both ascending
AscendingEntries(org) ==
    LET xs == SortAscending(DOMAIN org)
    IN  Flatten([i \in 1..Len(xs) |->
                    LET ys == SortAscending(DOMAIN org[xs[i]])
                    IN  [j \in 1..Len(ys) |-> <<xs[i], ys[j]>>]])

\* Go leaves the order of range over a map unspecified: the atomic tick
\* step is taken for each of these orders
RangeOrders(org) == {AscendingEntries(org), Reverse(AscendingEntries(org))}

----------------------------------------------------------------------------
(* Serializer *)

Header == <<"#", "L", "i", "f", "e", " ", "1", ".", "0", "6">>

getSortedCoordXs(org) == SortAscending(DOMAIN org)

\* getSortedCoordYs with the comparison reversed
getSortedCoordYsDescending(organismsByX) == Reverse(SortAscending(DOMAIN organismsByX))

getSortedCoordYs(organismsByX) == SortAscending(DOMAIN organismsByX)

\* outputOrganisms: the lines written, each ended by a newline
outputOrganisms(org) ==
    LET coordXs == getSortedCoordXs(org)
        linesOf(coordX) ==
            LET coordYs == getSortedCoordYs(org[coordX])
            IN  Flatten([j \in 1..Len(coordYs) |->
                            IF org[coordX][coordYs[j]] = 1
                            THEN <<FormatInt(coordX) \o <<" ">> \o FormatInt(coordYs[j])>>
                            ELSE <<>>])
    IN  <<Header>> \o Flatten([i \in 1..Len(coordXs) |-> linesOf(coordXs[i])])

\* outputOrganismsTick naming the file after the next tick
outputOrganismsTickOffByOne(files, org, t) ==
    IF OutputDirectory # <<>>
    THEN Append(files, [name |-> OutputDirectory \o <<"/">>
                                 \o FormatPadded(t + 1, ticksDigitsLength)
                                 \o <<".", "t", "x", "t">>,
                        content |-> outputOrganisms(org)])
    ELSE files

\* outputOrganismsTick: the file written for a tick, if any
outputOrganismsTick(files, org, t) ==
    IF OutputDirectory # <<>>
    THEN Append(files, [name |-> OutputDirectory \o <<"/">>
                                 \o FormatPadded(t, ticksDigitsLength)
                                 \o <<".", "t", "x", "t">>,
                        content |-> outputOrganisms(org)])
    ELSE files

\* the bytes the Fprintln / Fprintf calls of outputOrganisms write
Bytes(lines) == Flatten([i \in 1..Len(lines) |-> lines[i] \o <<"\n">>])

\* os.OpenFile(name, os.O_RDWR|os.O_CREATE, 0755) and the writes that follow:
\* the file is created if it is not there, it is not truncated, and the
\* bytes go to offset 0 and on, over what the file holds
OpenFileWrite(files, name, bytes) ==
    LET old == IF name \in DOMAIN files THEN files[name] ELSE <<>>
    IN  [n \in (DOMAIN files) \cup {name} |->
            IF n = name THEN bytes \o SubSeq(old, Len(bytes) + 1, Len(old))
            ELSE files[n]]

\* the name outputOrganismsTick gives the file of a tick
TickFileName(t) ==
    OutputDirectory \o <<"/">> \o FormatPadded(t, ticksDigitsLength) \o <<".", "t", "x", "t">>

\* outputOrganismsTick: what it does to the files on disk
outputOrganismsTickFile(files, org, t) ==
    IF OutputDirectory # <<>>
    THEN OpenFileWrite(files, TickFileName(t), Bytes(outputOrganisms(org)))
    ELSE files

----------------------------------------------------------------------------
(* Inputs: command lines, configuration files, input lines *)

WorldText(minX, maxX, minY, maxY) ==
    FormatInt(minX) \o <<":">> \o FormatInt(maxX) \o <<";">>
    \o FormatInt(minY) \o <<":">> \o FormatInt(maxY)

\* the -world default of variant 1
DefaultWorldText == WorldText(MinInt64, MaxInt64, MinInt64, MaxInt64)

\* a seed record "(x,y)"
SeedText(x, y) == <<"(">> \o FormatInt(x) \o <<",">> \o FormatInt(y) \o <<")">>

\* comma-delimited integers
CsvText(ns) == Join([i \in 1..Len(ns) |-> FormatInt(ns[i])], <<",">>)

OutDirName == <<"o", "u", "t">>

\* a command line; a flag that is not given is <<>> (ticks, world) or its default
CmdLine(ticks, wraparound, nowrap, world, newlife, exlife, outdir, configuration) ==
    [ticks |-> ticks, wraparound |-> wraparound, nowrap |-> nowrap, world |-> world,
     newlife |-> newlife, exlife |-> exlife, outdir |-> outdir,
     configuration |-> configuration, output |-> <<>>]

\* the command line cmd with -output file
WithOutput(cmd, file) == [cmd EXCEPT !.output = file]

\* the decoded configuration file; a key that is not given has the zero value
ConfigFile(ticks, disable, minX, maxX, minY, maxY, newlife, exlife, outdir) ==
    [exists |-> TRUE, Ticks |-> ticks, DisableWraparound |-> disable,
     WorldDimensions |-> [X |-> [Minimum |-> minX, Maximum |-> maxX],
                          Y |-> [Minimum |-> minY, Maximum |-> maxY]],
     NewLifeSpawn |-> newlife, ExistingLifeRemain |-> exlife,
     OutputDirectory |-> outdir, OutputFile |-> <<>>]

NoFile == [ConfigFile(0, FALSE, 0, 0, 0, 0, <<>>, <<>>, <<>>) EXCEPT !.exists = FALSE]

----------------------------------------------------------------------------
(* Configuration processing *)

\* the world dimension parsing shared by bootstrap (variant 1) and
\* processConfigurationCli (variant 2); w is the world before the call
ParseWorldDimensions(text, w) ==
    LET parts == Split(text, ";")
    IN  IF Len(parts) # 2 THEN [ok |-> FALSE, world |-> w]
        ELSE
        LET partsX == Split(parts[1], ":")
            partsY == Split(parts[2], ":")
        IN  IF Len(partsX) # 2 \/ Len(partsY) # 2 THEN [ok |-> FALSE, world |-> w]
            ELSE
            LET a == ParseInt(TrimSpace(partsX[1]))
                b == ParseInt(TrimSpace(partsX[2]))
                c == ParseInt(TrimSpace(partsY[1]))
                d == ParseInt(TrimSpace(partsY[2]))
            IN  IF ~a.ok THEN [ok |-> FALSE, world |-> <<a.value, w[2], w[3], w[4]>>]
                ELSE IF ~b.ok THEN [ok |-> FALSE, world |-> <<a.value, b.value, w[3], w[4]>>]
                ELSE IF ~c.ok THEN [ok |-> FALSE, world |-> <<a.value, b.value, c.value, w[4]>>]
                ELSE [ok |-> d.ok, world |-> <<a.value, b.value, c.value, d.value>>]

\* the loop that counts the decimal digits of the tick count
RECURSIVE CountDigits(_)
CountDigits(i) == IF i = 0 THEN 0 ELSE 1 + CountDigits(i \div 10)

\* the -newlife / -exlife parsing of processConfigurationCli
\* (the slice holds the entries appended before the first one that is fatal)
ParseNeighbors(text) ==
    LET parts == Split(text, ",")
        parsed == [i \in 1..Len(parts) |-> ParseInt(TrimSpace(parts[i]))]
        good(i) == parsed[i].ok /\ parsed[i].value >= 1
        bad == {i \in 1..Len(parts) : ~good(i)}
        kept == IF bad = {} THEN Len(parts)
                ELSE (CHOOSE i \in bad : \A j \in bad : i <= j) - 1
    IN  [ok |-> bad = {},
         slice |-> [i \in 1..kept |-> parsed[i].value]]

\* variant 1: bootstrap of src/main.go, flag.Parse included
Bootstrap1(CmdLines) ==
    /\ variant = 1
    /\ pc = "main"
    /\ \E cmd \in CmdLines :
        LET ticks == IF cmd.ticks = <<>> THEN DefaultTicks ELSE cmd.ticks[1]
            text == IF cmd.world = <<>> THEN DefaultWorldText ELSE cmd.world[1]
            parsed == ParseWorldDimensions(text, <<worldMinX, worldMaxX, worldMinY, worldMaxY>>)
        IN  /\ flagTicks' = ticks
            /\ flagWraparound' = cmd.wraparound
            /\ flagWorldDimensions' = text
            /\ flagOutputDirectory' = cmd.outdir
            /\ flagOutputFile' = cmd.output
            /\ IF ticks < 1
               THEN /\ pc' = "fatal"
                    /\ UNCHANGED <<worldVars, ticksDigitsLength>>
               ELSE /\ worldMinX' = parsed.world[1]
                    /\ worldMaxX' = parsed.world[2]
                    /\ worldMinY' = parsed.world[3]
                    /\ worldMaxY' = parsed.world[4]
                    /\ pc' = IF parsed.ok THEN "seedLife" ELSE "fatal"
                    /\ ticksDigitsLength' = IF parsed.ok /\ cmd.outdir # <<>>
                                            THEN CountDigits(ticks)
                                            ELSE ticksDigitsLength
    /\ UNCHANGED <<stepVars, disk, variant, cf, stdin, flagConfigurationFile, flagDisableWraparound,
                   flagNewLifeSpawn, flagExistingLifeRemain, appVars, runVars>>

\* variant 2: parseFlags
parseFlags(CmdLines) ==
    /\ variant = 2
    /\ pc = "main"
    /\ \E cmd \in CmdLines :
        /\ flagConfigurationFile' = cmd.configuration
        /\ flagTicks' = IF cmd.ticks = <<>> THEN 0 ELSE cmd.ticks[1]
        /\ flagDisableWraparound' = cmd.nowrap
        /\ flagWorldDimensions' = IF cmd.world = <<>> THEN <<>> ELSE cmd.world[1]
        /\ flagNewLifeSpawn' = cmd.newlife
        /\ flagExistingLifeRemain' = cmd.exlife
        /\ flagOutputDirectory' = cmd.outdir
        /\ flagOutputFile' = cmd.output
    /\ pc' = "processConfigurationFile"
    /\ UNCHANGED <<stepVars, disk, variant, cf, stdin, flagWraparound, appVars, worldVars, ticksDigitsLength,
                   runVars>>

\* variant 2: processConfigurationFile
processConfigurationFile ==
    /\ variant = 2
    /\ pc = "processConfigurationFile"
    /\ IF ~flagConfigurationFile
       THEN /\ pc' = "processConfigurationCli"
            /\ UNCHANGED <<appVars, worldVars>>
       ELSE IF ~cf.exists
       THEN /\ pc' = "fatal"
            /\ UNCHANGED <<appVars, worldVars>>
       ELSE /\ pc' = "processConfigurationCli"
            /\ appOutputFile' = IF cf.OutputFile # <<>> THEN cf.OutputFile ELSE appOutputFile
            /\ appOutputDirectory' = IF cf.OutputDirectory # <<>>
                                     THEN cf.OutputDirectory ELSE appOutputDirectory
            /\ appTicks' = IF cf.Ticks # 0 THEN cf.Ticks ELSE appTicks
            /\ appWraparound' = IF cf.DisableWraparound THEN FALSE ELSE appWraparound
            /\ IF \/ cf.WorldDimensions.X.Minimum # 0
                  \/ cf.WorldDimensions.X.Maximum # 0
                  \/ cf.WorldDimensions.Y.Minimum # 0
                  \/ cf.WorldDimensions.Y.Maximum # 0
               THEN /\ worldMinX' = cf.WorldDimensions.X.Minimum
                    /\ worldMaxX' = cf.WorldDimensions.X.Maximum
                    /\ worldMinY' = cf.WorldDimensions.Y.Minimum
                    /\ worldMaxY' = cf.WorldDimensions.X.Maximum
               ELSE UNCHANGED worldVars
            /\ appNewLifeSpawn' = IF Len(cf.NewLifeSpawn) > 0
                                  THEN cf.NewLifeSpawn ELSE appNewLifeSpawn
            /\ appExistingLifeRemain' = IF Len(cf.ExistingLifeRemain) > 0
                                        THEN cf.ExistingLifeRemain
                                        ELSE appExistingLifeRemain
    /\ UNCHANGED <<stepVars, disk, variant, cf, stdin, flagVars, ticksDigitsLength, runVars>>

\* variant 2: processConfigurationCli
processConfigurationCli ==
    /\ variant = 2
    /\ pc = "processConfigurationCli"
    /\ LET parsed == IF flagWorldDimensions # <<>>
                     THEN ParseWorldDimensions(flagWorldDimensions,
                              <<worldMinX, worldMaxX, worldMinY, worldMaxY>>)
                     ELSE [ok |-> TRUE,
                           world |-> <<worldMinX, worldMaxX, worldMinY, worldMaxY>>]
           newlife == ParseNeighbors(flagNewLifeSpawn)
           exlife == ParseNeighbors(flagExistingLifeRemain)
           newlifeOk == flagNewLifeSpawn = <<>> \/ newlife.ok
           exlifeOk == flagExistingLifeRemain = <<>> \/ exlife.ok
       IN  /\ appOutputFile' = IF flagOutputFile # <<>> THEN flagOutputFile ELSE appOutputFile
           /\ appOutputDirectory' = IF flagOutputDirectory # <<>>
                                    THEN flagOutputDirectory ELSE appOutputDirectory
           /\ appTicks' = IF flagTicks # 0 THEN flagTicks ELSE appTicks
           /\ appWraparound' = IF ~flagDisableWraparound THEN FALSE ELSE appWraparound
           /\ worldMinX' = parsed.world[1]
           /\ worldMaxX' = parsed.world[2]
           /\ worldMinY' = parsed.world[3]
           /\ worldMaxY' = parsed.world[4]
           /\ appNewLifeSpawn' = IF parsed.ok /\ flagNewLifeSpawn # <<>>
                                 THEN newlife.slice ELSE appNewLifeSpawn
           /\ appExistingLifeRemain' =
                  IF parsed.ok /\ newlifeOk /\ flagExistingLifeRemain # <<>>
                  THEN exlife.slice ELSE appExistingLifeRemain
           /\ pc' = IF parsed.ok /\ newlifeOk /\ exlifeOk THEN "bootstrap" ELSE "fatal"
    /\ UNCHANGED <<stepVars, disk, variant, cf, stdin, flagVars, ticksDigitsLength, runVars>>

\* variant 2: bootstrap
bootstrap ==
    /\ variant = 2
    /\ pc = "bootstrap"
    /\ IF appTicks < 1
       THEN /\ pc' = "fatal"
            /\ UNCHANGED ticksDigitsLength
       ELSE /\ ticksDigitsLength' = IF appOutputDirectory # <<>>
                                    THEN CountDigits(appTicks) ELSE ticksDigitsLength
            /\ pc' = IF worldMinX >= worldMaxX \/ worldMinY >= worldMaxY
                     THEN "fatal" ELSE "seedLife"
    /\ UNCHANGED <<stepVars, disk, variant, cf, stdin, flagVars, appVars, worldVars, runVars>>

----------------------------------------------------------------------------
(* Seeding *)

\* one record of the input: what the body of the scanner loop does with it
ParseSeed(line) ==
    IF Len(line) = 0 THEN [result |-> "panic", x |-> 0, y |-> 0]
    ELSE IF line[1] # "(" THEN [result |-> "fatal", x |-> 0, y |-> 0]
    ELSE IF line[Len(line)] # ")" THEN [result |-> "fatal", x |-> 0, y |-> 0]
    ELSE
    LET coordinates == Split(SubSeq(line, 2, Len(line) - 1), ",")
        coordX == ParseInt(TrimSpace(coordinates[1]))
    IN  IF ~coordX.ok THEN [result |-> "fatal", x |-> 0, y |-> 0]
        ELSE IF Len(coordinates) < 2 THEN [result |-> "panic", x |-> 0, y |-> 0]
        ELSE
        LET coordY == ParseInt(TrimSpace(coordinates[2]))
        IN  IF ~coordY.ok THEN [result |-> "fatal", x |-> 0, y |-> 0]
            ELSE IF \/ coordX.value < worldMinX
                    \/ coordX.value > worldMaxX
                    \/ coordY.value < worldMinY
                    \/ coordY.value > worldMaxY
            THEN [result |-> "fatal", x |-> coordX.value, y |-> coordY.value]
            ELSE [result |-> "add", x |-> coordX.value, y |-> coordY.value]

\* seedLife: the scanner returns a line
ScanLine(Lines, limit) ==
    /\ pc = "seedLife"
    /\ Cardinality(AliveSet(organisms)) < limit
    /\ \E line \in Lines :
        LET seed == ParseSeed(line)
        IN  IF seed.result = "add"
            THEN /\ organisms' = addOrganism(organisms, seed.x, seed.y)
                 /\ pc' = "seedLife"
            ELSE /\ pc' = seed.result
                 /\ UNCHANGED organisms
    /\ UNCHANGED <<stepVars, disk, variant, cf, stdin, flagVars, appVars, worldVars, ticksDigitsLength,
                   tick, outputDirectory, output, generations, lookups>>

\* seedLife: the scanner returns the next line of the stream in stdin
ScanStdin ==
    /\ pc = "seedLife"
    /\ stdin.pos < Len(stdin.lines)
    /\ stdin' = [stdin EXCEPT !.pos = @ + 1]
    /\ LET seed == ParseSeed(stdin.lines[stdin.pos + 1])
       IN  IF seed.result = "add"
           THEN /\ organisms' = addOrganism(organisms, seed.x, seed.y)
                /\ pc' = "seedLife"
           ELSE /\ pc' = seed.result
                /\ UNCHANGED organisms
    /\ UNCHANGED <<stepVars, disk, variant, cf, flagVars, appVars, worldVars, ticksDigitsLength,
                   tick, outputDirectory, output, generations, lookups>>

\* seedLife: end of input; main enters its loop with tick = 0
ScanEnd(ready) ==
    /\ pc = "seedLife"
    /\ ready
    /\ pc' = "loop"
    /\ tick' = 0
    /\ generations' = <<organisms>>
    /\ UNCHANGED <<stepVars, disk, variant, cf, stdin, flagVars, appVars, worldVars, ticksDigitsLength,
                   organisms, outputDirectory, output, lookups>>

----------------------------------------------------------------------------
(* The loop of main *)

\* loop head and outputOrganismsTick(organisms, tick)
LoopOutput ==
    /\ pc = "loop"
    /\ tick < Ticks
    /\ outputDirectory' = outputOrganismsTick(outputDirectory, organisms, tick)
    /\ disk' = outputOrganismsTickFile(disk, organisms, tick)
    /\ pc' = "compute"
    /\ UNCHANGED <<stepVars, variant, cf, stdin, flagVars, appVars, worldVars, ticksDigitsLength,
                   organisms, tick, output, generations, lookups>>

\* the two range loops, organisms = organismsNext and tick++
Compute ==
    /\ pc = "compute"
    /\ \E order \in RangeOrders(organisms) :
           organisms' = TickOver(organisms, EmptyOrganisms, order)
    /\ lookups' = [c \in Entries(organisms) |-> NeighborLookups(c[1], c[2])]
    /\ generations' = Append(generations, organisms')
    /\ tick' = tick + 1
    /\ pc' = "loop"
    /\ UNCHANGED <<stepVars, disk, variant, cf, stdin, flagVars, appVars, worldVars, ticksDigitsLength,
                   outputDirectory, output>>

\* the hasLife calls for one entry, one after the other: the count and the
\* map after the last call
RECURSIVE CountNeighbors(_, _)
CountNeighbors(org, calls) ==
    IF calls = <<>> THEN [neighborsAlive |-> 0, organisms |-> org]
    ELSE LET call == hasLifeCall(org, calls[1][1], calls[1][2])
             rest == CountNeighbors(call.organisms, Tail(calls))
         IN  [neighborsAlive |-> call.value + rest.neighborsAlive,
              organisms |-> rest.organisms]

\* a pass through the body of the range loops that counts the neighbors
\* already visited by their state in organismsNext
VisitReadingNext ==
    /\ pc = "compute"
    /\ \E e \in Entries(organisms) \ visited :
           LET calls == NeighborLookups(e[1], e[2])
               n == SumSeq([i \in 1..Len(calls) |->
                               IF calls[i] \in visited
                               THEN hasLife(organismsNext, calls[i][1], calls[i][2])
                               ELSE hasLife(organisms, calls[i][1], calls[i][2])])
           IN  /\ organismsNext' = IF WillLive(organisms[e[1]][e[2]], n)
                                    THEN addOrganism(organismsNext, e[1], e[2])
                                    ELSE organismsNext
               /\ visited' = visited \cup {e}
    /\ UNCHANGED <<variant, pc, cf, disk, stdin, flagVars, appVars, worldVars,
                   ticksDigitsLength, runVars>>

\* one pass through the body of the range loops: an entry that has not
\* been visited is decided by its hasLife calls on organisms and, if it
\* lives, added to organismsNext.  Go leaves the order of range over a map
\* unspecified; the entries are taken in every order, the orders of the
\* nested loops among them
Visit ==
    /\ pc = "compute"
    /\ \E e \in Entries(organisms) \ visited :
           LET counted == CountNeighbors(organisms, NeighborLookups(e[1], e[2]))
           IN  /\ organisms' = counted.organisms
               /\ organismsNext' = IF WillLive(organisms[e[1]][e[2]], counted.neighborsAlive)
                                    THEN addOrganism(organismsNext, e[1], e[2])
                                    ELSE organismsNext
               /\ visited' = visited \cup {e}
    /\ UNCHANGED <<variant, pc, cf, disk, stdin, flagVars, appVars, worldVars,
                   ticksDigitsLength, tick, outputDirectory, output, generations,
                   lookups>>

\* the range loops are done: organisms = organismsNext and tick++; the next
\* pass starts with a new map
EndTick ==
    /\ pc = "compute"
    /\ visited = Entries(organisms)
    /\ organisms' = organismsNext
    /\ organismsNext' = EmptyOrganisms
    /\ visited' = {}
    /\ lookups' = [c \in Entries(organisms) |-> NeighborLookups(c[1], c[2])]
    /\ generations' = Append(generations, organisms')
    /\ tick' = tick + 1
    /\ pc' = "loop"
    /\ UNCHANGED <<variant, cf, disk, stdin, flagVars, appVars, worldVars, ticksDigitsLength,
                   outputDirectory, output>>

\* loop exit and outputOrganismsTick(organisms, ticks)
LoopExit ==
    /\ pc = "loop"
    /\ ~(tick < Ticks)
    /\ outputDirectory' = outputOrganismsTick(outputDirectory, organisms, Ticks)
    /\ disk' = outputOrganismsTickFile(disk, organisms, Ticks)
    /\ pc' = "output"
    /\ UNCHANGED <<stepVars, variant, cf, stdin, flagVars, appVars, worldVars, ticksDigitsLength,
                   organisms, tick, output, generations, lookups>>

\* outputOrganisms(organisms, file) and os.Exit(0)
FinalOutput ==
    /\ pc = "output"
    /\ output' = Append(output, outputOrganisms(organisms))
    /\ disk' = IF OutputFile # <<>>
               THEN OpenFileWrite(disk, OutputFile, Bytes(outputOrganisms(organisms)))
               ELSE disk
    /\ pc' = "exit"
    /\ UNCHANGED <<stepVars, variant, cf, stdin, flagVars, appVars, worldVars, ticksDigitsLength,
                   organisms, tick, outputDirectory, generations, lookups>>

----------------------------------------------------------------------------
(* The state after package initialisation (the var block and init()) *)

\* an input stream of which nothing has been read
Unread(lines) == [lines |-> lines, pos |-> 0]

\* a disk without files
NoFiles == [n \in {} |-> <<>>]

\* Files: the configuration files that may be on disk; Inputs: the input
\* streams; Disks: the files that may be on disk before the run
InitOn(Files, Inputs, Disks) ==
    /\ variant \in {1, 2}
    /\ cf \in (IF variant = 1 THEN {NoFile} ELSE Files)
    /\ stdin \in Inputs
    /\ disk \in Disks
    /\ flagOutputFile = <<>>
    /\ appOutputFile = <<>>
    /\ pc = "main"
    /\ flagConfigurationFile = FALSE
    /\ flagTicks = IF variant = 1 THEN DefaultTicks ELSE 0
    /\ flagWraparound = TRUE
    /\ flagDisableWraparound = FALSE
    /\ flagWorldDimensions = IF variant = 1 THEN DefaultWorldText ELSE <<>>
    /\ flagNewLifeSpawn = <<>>
    /\ flagExistingLifeRemain = <<>>
    /\ flagOutputDirectory = <<>>
    /\ appTicks = DefaultTicks
    /\ appWraparound = TRUE
    /\ appNewLifeSpawn = <<3>>
    /\ appExistingLifeRemain = <<2, 3>>
    /\ appOutputDirectory = <<>>
    /\ worldMinX = IF variant = 1 THEN 0 ELSE MinInt64
    /\ worldMaxX = IF variant = 1 THEN 0 ELSE MaxInt64
    /\ worldMinY = IF variant = 1 THEN 0 ELSE MinInt64
    /\ worldMaxY = IF variant = 1 THEN 0 ELSE MaxInt64
    /\ ticksDigitsLength = 0
    /\ organisms = EmptyOrganisms
    /\ organismsNext = EmptyOrganisms
    /\ visited = {}
    /\ tick = 0
    /\ outputDirectory = <<>>
    /\ output = <<>>
    /\ generations = <<>>
    /\ lookups = [c \in {} |-> <<>>]

\* the runs that find no file on disk
InitWithInput(Files, Inputs) == InitOn(Files, Inputs, {NoFiles})

\* the runs whose records are drawn one by one (ScanLine) hold no stream
InitWith(Files) == InitWithInput(Files, {Unread(<<>>)})

----------------------------------------------------------------------------
(* Spec: the engine on small worlds, seeded with up to MaxSeeds live cells *)

\* worlds given to -world: 3x3, 2x3 (two columns), 1x3 (one column, min = max)
\* and none (the whole int64 plane)
SquareWorld == <<WorldText(0, 2, 0, 2)>>

EngineWorlds == {<<>>, SquareWorld, <<WorldText(0, 1, 0, 2)>>,
                 <<WorldText(0, 0, 0, 2)>>}

\* -ticks 1 and -ticks MaxTicks
EngineTicks == {<<1>>, <<MaxTicks>>}

\* -outdir is given on some of the runs in the 3x3 world
EngineCmdLines1 ==
    {cmd \in {CmdLine(t, w, FALSE, world, <<>>, <<>>, outdir, FALSE) :
                t \in EngineTicks, w \in BOOLEAN, world \in EngineWorlds,
                outdir \in {<<>>, OutDirName}} :
        cmd.outdir # <<>> => cmd.world = SquareWorld}

\* rule sets given to -newlife and -exlife
EngineRules == {<<<<>>, <<>>>>, <<CsvText(<<2>>), CsvText(<<1, 3>>)>>}

\* a configuration file that sets new_life_spawn to [0, 3]
ZeroBirthFile == ConfigFile(0, FALSE, 0, 0, 0, 0, <<0, 3>>, <<>>, <<>>)

EngineFiles == {NoFile, ZeroBirthFile}

\* -newlife and -exlife are given on some of the runs in the 3x3 world;
\* -configuration is given when the file is on disk, on runs in the 3x3 world
EngineCmdLines2 ==
    {cmd \in {CmdLine(t, TRUE, nw, world, r[1], r[2], outdir, c) :
                t \in EngineTicks, nw \in BOOLEAN, world \in EngineWorlds,
                r \in EngineRules, outdir \in {<<>>, OutDirName}, c \in BOOLEAN} :
        /\ cmd.outdir # <<>> => cmd.world = SquareWorld
        /\ cmd.newlife # <<>> => cmd.world = SquareWorld /\ cmd.outdir = <<>>
        /\ cmd.configuration = cf.exists
        /\ cmd.configuration =>
              cmd.world = SquareWorld /\ cmd.outdir = <<>> /\ cmd.newlife = <<>>}

SeedCoords == {0, 1, 2}

\* well-formed records, one with blanks, and records seedLife rejects
SeedLines == {SeedText(x, y) : x \in SeedCoords, y \in SeedCoords}
             \cup {<<"(", " ", "1", ",", " ", "1", " ", ")">>,
                   Header, <<"0", " ", "1">>, <<"(", "0", ")">>}

Init == InitWith(EngineFiles)

Next ==
    \/ Bootstrap1(EngineCmdLines1)
    \/ parseFlags(EngineCmdLines2)
    \/ processConfigurationFile
    \/ processConfigurationCli
    \/ bootstrap
    \/ ScanLine(SeedLines, MaxSeeds)
    \/ ScanEnd(TRUE)
    \/ LoopOutput
    \/ Compute
    \/ LoopExit
    \/ FinalOutput

Spec == Init /\ [][Next]_vars

----------------------------------------------------------------------------
(* SpecBlock: the 2x2 block, or a part of it, as the seed *)

BlockCells == {<<0, 0>>, <<1, 0>>, <<0, 1>>, <<1, 1>>}

BlockLines == {SeedText(c[1], c[2]) : c \in BlockCells}

\* worlds around the block: a margin of one cell, wider margins, the whole
\* int64 plane, and the world that is the block itself (no margin)
BlockWorlds == {<<>>, <<WorldText(-1, 2, -1, 2)>>, <<WorldText(-1, 2, -2, 3)>>,
                <<WorldText(-2, 3, -1, 2)>>, <<WorldText(0, 1, 0, 1)>>}

\* -ticks MaxBlockTicks, or not given
BlockTicks == {<<>>, <<MaxBlockTicks>>}

BlockCmdLines1 ==
    {CmdLine(t, w, FALSE, world, <<>>, <<>>, <<>>, FALSE) :
        t \in BlockTicks, w \in BOOLEAN, world \in BlockWorlds}

BlockCmdLines2 ==
    {CmdLine(t, TRUE, nw, world, <<>>, <<>>, <<>>, FALSE) :
        t \in BlockTicks, nw \in BOOLEAN, world \in BlockWorlds}

InitBlock == InitWith({NoFile})

NextBlock ==
    \/ Bootstrap1(BlockCmdLines1)
    \/ parseFlags(BlockCmdLines2)
    \/ processConfigurationFile
    \/ processConfigurationCli
    \/ bootstrap
    \/ ScanLine(BlockLines, Cardinality(BlockCells))
    \/ ScanEnd(TRUE)
    \/ LoopOutput
    \/ Compute
    \/ LoopExit
    \/ FinalOutput

SpecBlock == InitBlock /\ [][NextBlock]_vars

----------------------------------------------------------------------------
(* SpecGlider: the 5-cell glider as the seed *)

GliderCells == {<<1, 0>>, <<2, 1>>, <<0, 2>>, <<1, 2>>, <<2, 2>>}

GliderLines == {SeedText(c[1], c[2]) : c \in GliderCells}

\* worlds: 5x5, 6x6, 5x6, the whole int64 plane, and 4x4
GliderWorlds == {<<>>, <<WorldText(-1, 3, -1, 3)>>, <<WorldText(-2, 3, -2, 3)>>,
                 <<WorldText(-1, 3, -2, 3)>>, <<WorldText(0, 3, 0, 3)>>}

GliderTicks == {<<4>>, <<MaxGliderTicks>>}

GliderCmdLines1 ==
    {CmdLine(t, w, FALSE, world, <<>>, <<>>, <<>>, FALSE) :
        t \in GliderTicks, w \in BOOLEAN, world \in GliderWorlds}

GliderCmdLines2 ==
    {CmdLine(t, TRUE, nw, world, <<>>, <<>>, <<>>, FALSE) :
        t \in GliderTicks, nw \in BOOLEAN, world \in GliderWorlds}

InitGlider == InitWith({NoFile})

\* the input ends when the whole glider has been read
NextGlider ==
    \/ Bootstrap1(GliderCmdLines1)
    \/ parseFlags(GliderCmdLines2)
    \/ processConfigurationFile
    \/ processConfigurationCli
    \/ bootstrap
    \/ ScanLine(GliderLines, Cardinality(GliderCells))
    \/ ScanEnd(AliveSet(organisms) = GliderCells)
    \/ LoopOutput
    \/ Compute
    \/ LoopExit
    \/ FinalOutput

SpecGlider == InitGlider /\ [][NextGlider]_vars

----------------------------------------------------------------------------
(* Properties *)

\* the positions of main after configuration processing
Configured == pc \in {"seedLife", "loop", "compute", "output", "exit"}

\* the birth and survival sets in force
BirthSet == IF variant = 1 THEN {3}
            ELSE {appNewLifeSpawn[i] : i \in 1..Len(appNewLifeSpawn)}

SurviveSet == IF variant = 1 THEN {2, 3}
              ELSE {appExistingLifeRemain[i] : i \in 1..Len(appExistingLifeRemain)}

\* the axis resolution as the design states it:
\* resolveAxis(coord, min, max, wraparound)
ResolveAxis(coord, min, max, wraparound) ==
    [lowerExists |-> coord # min \/ wraparound,
     lower |-> IF coord = min THEN max ELSE coord - 1,
     upperExists |-> coord # max \/ wraparound,
     upper |-> IF coord = max THEN min ELSE coord + 1]

\* the combinations of the two axis resolutions whose existence flags are
\* both true, the cell's own position left out; "lower", "self", "upper"
ExistingCombinations(x, y) ==
    LET rx == ResolveAxis(x, worldMinX, worldMaxX, Wraparound)
        ry == ResolveAxis(y, worldMinY, worldMaxY, Wraparound)
        existsX(d) == d = "self" \/ (d = "lower" /\ rx.lowerExists)
                                 \/ (d = "upper" /\ rx.upperExists)
        existsY(d) == d = "self" \/ (d = "lower" /\ ry.lowerExists)
                                 \/ (d = "upper" /\ ry.upperExists)
    IN  {d \in {"lower", "self", "upper"} \X {"lower", "self", "upper"} :
            d # <<"self", "self">> /\ existsX(d[1]) /\ existsY(d[2])}

\* the coordinate a combination resolves to
CombinationCoord(x, y, d) ==
    LET rx == ResolveAxis(x, worldMinX, worldMaxX, Wraparound)
        ry == ResolveAxis(y, worldMinY, worldMaxY, Wraparound)
    IN  <<IF d[1] = "lower" THEN rx.lower ELSE IF d[1] = "upper" THEN rx.upper ELSE x,
          IF d[2] = "lower" THEN ry.lower ELSE IF d[2] = "upper" THEN ry.upper ELSE y>>

IsAlive(org, c) == HasEntry(org, c[1], c[2]) /\ org[c[1]][c[2]] = 1

\* the neighbor count of the tick engine: one for every existing
\* combination whose coordinate is alive in the current generation
AliveNeighborCount(org, x, y) ==
    Cardinality({d \in ExistingCombinations(x, y) :
                    IsAlive(org, CombinationCoord(x, y, d))})

\* the birth/survival rule for one coordinate
RuleSaysAlive(org, c) ==
    LET n == AliveNeighborCount(org, c[1], c[2])
    IN  \/ IsAlive(org, c) /\ n \in SurviveSet
        \/ ~IsAlive(org, c) /\ n \in BirthSet

\* C1: one tick decides every coordinate with an entry by the birth/survival
\* rule: it is alive in the next generation iff it is alive now and its
\* count of alive existing neighbors is in the survive set, or it is dead
\* now and the count is in the birth set (variant 1: birth {3}, survive {2,3})
C1_TickRule ==
    [][pc = "compute" =>
          \A c \in Entries(organisms) :
              IsAlive(organisms', c) <=> RuleSaysAlive(organisms, c)]_vars

\* a tick in which one cell was born, one died and one survived
C1_Witness ==
    /\ Len(generations) >= 2
    /\ LET before == AliveSet(generations[Len(generations) - 1])
           after == AliveSet(generations[Len(generations)])
       IN  /\ after \ before # {}
           /\ before \ after # {}
           /\ before \cap after # {}

WorldCells == (worldMinX..worldMaxX) \X (worldMinY..worldMaxY)

PositiveRules == \A n \in BirthSet \cup SurviveSet : n >= 1

\* C2: with rule sets of positive integers, a World coordinate without an
\* entry is dead now and dead after the tick, and the alive set the tick
\* produces from the entries alone is the alive set the rule gives when it
\* is applied to every coordinate of the World
C2_CandidateSetComplete ==
    [][pc = "compute" /\ PositiveRules =>
          /\ \A c \in WorldCells \ Entries(organisms) :
                 hasLife(organisms, c[1], c[2]) = 0 /\ ~IsAlive(organisms', c)
          /\ AliveSet(organisms') = {c \in WorldCells : RuleSaysAlive(organisms, c)}]_vars

\* a tick with a birth, in a world that has coordinates without an entry
C2_Witness ==
    /\ Len(generations) >= 2
    /\ PositiveRules
    /\ LET before == generations[Len(generations) - 1]
           after == generations[Len(generations)]
       IN  /\ WorldCells \ Entries(before) # {}
           /\ AliveSet(after) \ AliveSet(before) # {}

\* a line "<x> <y>" read back
ParseOutputLine(line) ==
    LET parts == Split(line, " ")
    IN  IF Len(parts) # 2 THEN [ok |-> FALSE, coord |-> <<0, 0>>]
        ELSE LET px == ParseInt(parts[1])
                 py == ParseInt(parts[2])
             IN  [ok |-> px.ok /\ py.ok, coord |-> <<px.value, py.value>>]

\* ascending X, then ascending Y within equal X
LexLess(a, b) == a[1] < b[1] \/ (a[1] = b[1] /\ a[2] < b[2])

\* content is the header and one line per alive coordinate of org, each
\* once, strictly ascending
IsSerializationOf(content, org) ==
    /\ Len(content) = 1 + Cardinality(AliveSet(org))
    /\ content[1] = Header
    /\ \A i \in 2..Len(content) :
           LET p == ParseOutputLine(content[i])
           IN  /\ p.ok
               /\ p.coord \in AliveSet(org)
               /\ content[i] = FormatInt(p.coord[1]) \o <<" ">> \o FormatInt(p.coord[2])
    /\ \A i \in 2..(Len(content) - 1) :
           LexLess(ParseOutputLine(content[i]).coord, ParseOutputLine(content[i + 1]).coord)

\* C3: what the serializer writes to a sink is the header line "#Life 1.06"
\* and then one line "<x> <y>" for each alive coordinate of the generation,
\* each exactly once, strictly ascending by X and then by Y; no tracked-dead
\* coordinate is written
C3_Serialization ==
    /\ \A k \in 1..Len(output) : IsSerializationOf(output[k], organisms)
    /\ \A k \in 1..Len(outputDirectory) :
           /\ k <= Len(generations)
           /\ IsSerializationOf(outputDirectory[k].content, generations[k])

\* the final output of a generation with tracked-dead entries and alive
\* cells in two columns, two of them in one column
C3_Witness ==
    /\ pc = "exit"
    /\ Len(output) = 1
    /\ Entries(organisms) # AliveSet(organisms)
    /\ \E a, b, c \in AliveSet(organisms) :
           a[1] < b[1] /\ b[1] = c[1] /\ b[2] < c[2]

\* the tick index in the name of a per-tick file
NameIndex(name) ==
    DigitsValue(SubSeq(name, Len(OutputDirectory) + 2, Len(name) - 4))

\* C4: in a run of T ticks the tick engine is applied exactly T times,
\* generation n+1 computed from generation n alone; with a per-tick
\* directory the files written are those of indices 0, 1, ..., T in this
\* order, file i holding the serialization of generation i and written
\* before generation i+1 is computed; the final sink receives the
\* serialization of generation T exactly once, after the last tick
C4_TickOutputOrder ==
    /\ \A n \in 1..(Len(generations) - 1) :
           generations[n + 1] =
               TickOver(generations[n], EmptyOrganisms, AscendingEntries(generations[n]))
    /\ Len(generations) <= Ticks + 1
    /\ (Configured /\ OutputDirectory # <<>>) =>
           /\ Len(outputDirectory) <= Len(generations)
           /\ Len(outputDirectory) >= Len(generations) - 1
           /\ \A i \in 1..Len(outputDirectory) :
                  /\ NameIndex(outputDirectory[i].name) = i - 1
                  /\ outputDirectory[i].content = outputOrganisms(generations[i])
           /\ pc = "exit" => Len(outputDirectory) = Ticks + 1
    /\ output # <<>> => pc = "exit"
    /\ pc = "exit" =>
           /\ Ticks >= 1
           /\ Len(generations) = Ticks + 1
           /\ output = <<outputOrganisms(generations[Ticks + 1])>>

\* a finished run of two or more ticks with a per-tick directory, in which
\* the generations differ
C4_Witness ==
    /\ pc = "exit"
    /\ OutputDirectory # <<>>
    /\ Ticks >= 2
    /\ generations[1] # generations[2]
    /\ generations[2] # generations[3]
    /\ AliveSet(generations[3]) # {}

\* how often a coordinate occurs in a sequence of coordinates
Occurrences(calls, q) == Cardinality({i \in 1..Len(calls) : calls[i] = q})

\* C5: on each axis, for every coordinate within [min, max]: at min the
\* lower neighbor is max and exists with wraparound on and does not exist
\* with wraparound off; at max the upper neighbor is min and exists with
\* wraparound on and does not exist with wraparound off; otherwise the
\* lower neighbor is coord - 1, the upper is coord + 1 and they exist.  The
\* neighbors counted for a cell are the combinations of the X and Y results
\* whose existence flags are both true
C5_AxisResolution ==
    Configured =>
        /\ \A coord \in worldMinX..worldMaxX :
               LET n == getNeighborsX(coord)
               IN  /\ coord = worldMinX =>
                          /\ n.leftExists = Wraparound
                          /\ Wraparound => n.left = worldMaxX
                   /\ coord = worldMaxX =>
                          /\ n.rightExists = Wraparound
                          /\ Wraparound => n.right = worldMinX
                   /\ coord # worldMinX => n.leftExists /\ n.left = coord - 1
                   /\ coord # worldMaxX => n.rightExists /\ n.right = coord + 1
        /\ \A coord \in worldMinY..worldMaxY :
               LET n == getNeighborsY(coord)
               IN  /\ coord = worldMinY =>
                          /\ n.bottomExists = Wraparound
                          /\ Wraparound => n.bottom = worldMaxY
                   /\ coord = worldMaxY =>
                          /\ n.topExists = Wraparound
                          /\ Wraparound => n.top = worldMinY
                   /\ coord # worldMinY => n.bottomExists /\ n.bottom = coord - 1
                   /\ coord # worldMaxY => n.topExists /\ n.top = coord + 1
        /\ \A c \in DOMAIN lookups :
               LET combos == ExistingCombinations(c[1], c[2])
               IN  /\ Len(lookups[c]) = Cardinality(combos)
                   /\ \A d \in combos :
                          LET q == CombinationCoord(c[1], c[2], d)
                          IN  Occurrences(lookups[c], q) =
                                  Cardinality({e \in combos :
                                                  CombinationCoord(c[1], c[2], e) = q})

\* a tick that counted the neighbors of a cell at the axis minimum of a
\* wrapping world (its left neighbors lie at the axis maximum) and of a
\* cell in the interior
C5_Witness ==
    /\ Wraparound
    /\ worldMinX < worldMaxX
    /\ \E c \in DOMAIN lookups :
           /\ c[1] = worldMinX
           /\ Len(lookups[c]) = 8
           /\ Occurrences(lookups[c], <<worldMaxX, c[2]>>) >= 1
    /\ \E c \in DOMAIN lookups :
           /\ c[1] \notin {worldMinX, worldMaxX}
           /\ c[2] \notin {worldMinY, worldMaxY}

InWorld(q) == /\ q[1] >= worldMinX /\ q[1] <= worldMaxX
              /\ q[2] >= worldMinY /\ q[2] <= worldMaxY

OnEdgeX(c) == c[1] = worldMinX \/ c[1] = worldMaxX

OnEdgeY(c) == c[2] = worldMinY \/ c[2] = worldMaxY

\* C6: with wraparound disabled no tick looks up, for any cell, a
\* coordinate beyond an edge of the world (x < minX, x > maxX, y < minY,
\* y > maxY): a neighbor that does not exist is not looked up and adds
\* nothing to the count; a corner cell has at most 3 candidate neighbors
C6_HardBoundary ==
    (Configured /\ ~Wraparound) =>
        \A c \in DOMAIN lookups :
            /\ \A i \in 1..Len(lookups[c]) : InWorld(lookups[c][i])
            /\ (OnEdgeX(c) /\ OnEdgeY(c)) => Len(lookups[c]) <= 3
            /\ neighborsAlive(generations[Len(generations) - 1], c[1], c[2]) =
                   Cardinality({i \in 1..Len(lookups[c]) :
                       IsAlive(generations[Len(generations) - 1], lookups[c][i])})

\* a tick in a hard-edged world that counted 3 neighbors for the corner
\* cell (minX, minY), at least one of them alive
C6_Witness ==
    /\ Configured
    /\ ~Wraparound
    /\ <<worldMinX, worldMinY>> \in DOMAIN lookups
    /\ Len(lookups[<<worldMinX, worldMinY>>]) = 3
    /\ neighborsAlive(generations[Len(generations) - 1], worldMinX, worldMinY) >= 1

\* the command line or the configuration file asks to disable wraparound
AskedToDisable ==
    IF variant = 1 THEN ~flagWraparound
    ELSE \/ flagDisableWraparound
         \/ (flagConfigurationFile /\ cf.exists /\ cf.DisableWraparound)

\* C7: wraparound is on by default and turned off only on request: after
\* configuration processing the world wraps iff neither the configuration
\* file nor the command line asks to disable wraparound
C7_WraparoundDefault == Configured => (Wraparound <=> ~AskedToDisable)

ValidWorld == worldMinX < worldMaxX /\ worldMinY < worldMaxY

\* C8: a World with minX >= maxX or minY >= maxY aborts the run before any
\* seed is inserted and before any tick is computed
C8_InvalidWorldAborts ==
    (organisms # EmptyOrganisms \/ Len(generations) >= 2 \/ pc = "compute") => ValidWorld

DefaultRules == BirthSet = {3} /\ SurviveSet = {2, 3}

\* the world leaves at least one cell of margin around the block
BlockMargin ==
    /\ worldMinX <= -1 /\ worldMaxX >= 2
    /\ worldMinY <= -1 /\ worldMaxY >= 2

\* C9: with the default rules, in a world that leaves a margin of at least
\* one cell around it, wrapping or not, the seeded 2x2 block
\* (0,0),(1,0),(0,1),(1,1) is the alive set after every number of ticks
C9_BlockStability ==
    (/\ Len(generations) >= 1
     /\ AliveSet(generations[1]) = BlockCells
     /\ BlockMargin
     /\ DefaultRules) =>
        \A n \in 1..Len(generations) : AliveSet(generations[n]) = BlockCells

\* a finished run of MaxBlockTicks ticks or more from the block, in the
\* wrapping world with a margin of exactly one cell
C9_Witness ==
    /\ pc = "exit"
    /\ Wraparound
    /\ worldMinX = -1 /\ worldMaxX = 2 /\ worldMinY = -1 /\ worldMaxY = 2
    /\ DefaultRules
    /\ Len(generations) >= MaxBlockTicks + 1
    /\ AliveSet(generations[1]) = BlockCells
    /\ AliveSet(organisms) = BlockCells

WrapInto(v, min, max) == ((v - min) % (max - min + 1)) + min

\* a cell moved k cells along each axis of the wrapping world
Translated(c, k) == <<WrapInto(c[1] + k, worldMinX, worldMaxX),
                      WrapInto(c[2] + k, worldMinY, worldMaxY)>>

\* a wrapping world large enough for the glider: 5 cells or more per axis
GliderWorld ==
    /\ Wraparound
    /\ worldMaxX - worldMinX + 1 >= 5
    /\ worldMaxY - worldMinY + 1 >= 5

\* C10: with the default rules, in a wrapping world of at least 5 cells per
\* axis, the seeded glider is, after every 4 ticks, the same 5-cell shape
\* moved by one more cell along each axis, wrapped to the opposite side at
\* a world edge, and 5 cells are alive at every tick
C10_GliderTranslation ==
    (/\ Len(generations) >= 1
     /\ AliveSet(generations[1]) = GliderCells
     /\ GliderWorld
     /\ DefaultRules) =>
        /\ \A n \in 1..Len(generations) : Cardinality(AliveSet(generations[n])) = 5
        /\ \A k \in 0..((Len(generations) - 1) \div 4) :
               AliveSet(generations[4 * k + 1]) = {Translated(c, k) : c \in GliderCells}

\* a run in which the glider has moved at least 3 cells and lies across
\* an edge of the world: alive cells at the X minimum and at the X maximum
C10_Witness ==
    /\ Len(generations) >= 13
    /\ AliveSet(generations[1]) = GliderCells
    /\ GliderWorld
    /\ DefaultRules
    /\ (Len(generations) - 1) % 4 = 0
    /\ \E a, b \in AliveSet(organisms) : a[1] = worldMinX /\ b[1] = worldMaxX

\* the seed generation has exactly one alive cell
SingleSeed == Len(generations) >= 1 /\ Cardinality(AliveSet(generations[1])) = 1

\* C11: with the default rules and the default wraparound (the world wraps,
\* or nothing asked to disable it), a seed of a single alive coordinate
\* leaves no alive coordinate after 1 tick and after every later tick
C11_IsolationDeath ==
    (SingleSeed /\ DefaultRules /\ (Wraparound \/ ~AskedToDisable)) =>
        \A n \in 2..Len(generations) : AliveSet(generations[n]) = {}

----------------------------------------------------------------------------
(* SpecSeed: runs of MaxTicks ticks with the default rules, seeded with up  *)
(* to MaxSeeds live cells read in every order, records repeated             *)

SeedCmdLines1 ==
    {CmdLine(<<MaxTicks>>, w, FALSE, world, <<>>, <<>>, <<>>, FALSE) :
        w \in BOOLEAN, world \in EngineWorlds}

SeedCmdLines2 ==
    {CmdLine(<<MaxTicks>>, TRUE, nw, world, <<>>, <<>>, <<>>, FALSE) :
        nw \in BOOLEAN, world \in EngineWorlds}

InitSeed == InitWith({NoFile})

NextSeed ==
    \/ Bootstrap1(SeedCmdLines1)
    \/ parseFlags(SeedCmdLines2)
    \/ processConfigurationFile
    \/ processConfigurationCli
    \/ bootstrap
    \/ ScanLine(SeedLines, MaxSeeds)
    \/ ScanEnd(TRUE)
    \/ LoopOutput
    \/ Compute
    \/ LoopExit
    \/ FinalOutput

SpecSeed == InitSeed /\ [][NextSeed]_vars

\* the loop of seedLife over the records `coords`: addOrganism for each
RECURSIVE InsertAll(_, _)
InsertAll(org, coords) ==
    IF coords = <<>> THEN org
    ELSE InsertAll(addOrganism(org, coords[1][1], coords[1][2]), Tail(coords))

\* the orders in which the coordinates of S can be inserted, each once or
\* one of them twice
InsertionOrders(S) ==
    LET n == Cardinality(S)
    IN  {s \in [1..n -> S] \cup [1..(n + 1) -> S] :
            {s[i] : i \in 1..Len(s)} = S}

\* C12: the Live-Set seedLife has built is the one every order of insertion
\* of its alive coordinates builds, a coordinate repeated or not: the same
\* alive entries, the same tracked-dead entries (a stub never turns an alive
\* entry dead), and so the same serialization, strictly sorted by (x, y)
C12_InsertionOrder ==
    pc = "seedLife" =>
        /\ \A s \in InsertionOrders(AliveSet(organisms)) :
               LET built == InsertAll(EmptyOrganisms, s)
               IN  /\ built = organisms
                   /\ outputOrganisms(built) = outputOrganisms(organisms)
        /\ IsSerializationOf(outputOrganisms(organisms), organisms)

\* MaxSeeds cells inserted, two of them neighbors of each other (each
\* lies where the other one puts a stub), one across the edge of a
\* wrapping world, with tracked-dead entries around them
C12_Witness ==
    /\ pc = "seedLife"
    /\ Wraparound
    /\ Cardinality(AliveSet(organisms)) = MaxSeeds
    /\ Entries(organisms) # AliveSet(organisms)
    /\ \E a, b \in AliveSet(organisms) :
           /\ a # b
           /\ \E i \in 1..Len(NeighborLookups(a[1], a[2])) :
                  NeighborLookups(a[1], a[2])[i] = b
    /\ \E a, b \in AliveSet(organisms) : a[1] = worldMinX /\ b[1] = worldMaxX

----------------------------------------------------------------------------
(* SpecFile: runs of one tick configured by a configuration file, by the    *)
(* command line, or by both                                                 *)

\* seeds read in the runs of SpecFile
MaxFileSeeds == 2

\* world_dimensions x: 0..1, y: 0..2
WorldFile == ConfigFile(0, FALSE, 0, 1, 0, 2, <<>>, <<>>, <<>>)

\* world_dimensions x: 0..2, y: 0..2
SquareFile == ConfigFile(0, FALSE, 0, 2, 0, 2, <<>>, <<>>, <<>>)

\* existing_life_remain [-1, 2]
NegativeSurviveFile == ConfigFile(0, FALSE, 0, 0, 0, 0, <<>>, <<-1, 2>>, <<>>)

ConfigFiles == {NoFile, WorldFile, SquareFile, ZeroBirthFile, NegativeSurviveFile}

\* -newlife and -exlife: not given, "0,3", "3" and "-1", "2" and "1,3"
FileRules == {<<<<>>, <<>>>>, <<CsvText(<<0, 3>>), <<>>>>,
              <<CsvText(<<3>>), CsvText(<<-1>>)>>,
              <<CsvText(<<2>>), CsvText(<<1, 3>>)>>}

FileCmdLines1 ==
    {CmdLine(<<1>>, w, FALSE, world, <<>>, <<>>, <<>>, FALSE) :
        w \in BOOLEAN, world \in {<<>>, SquareWorld}}

\* -configuration is given when the file is on disk
FileCmdLines2 ==
    {CmdLine(<<1>>, TRUE, nw, world, r[1], r[2], <<>>, cf.exists) :
        nw \in BOOLEAN, world \in {<<>>, SquareWorld}, r \in FileRules}

InitFile == InitWith(ConfigFiles)

NextFile ==
    \/ Bootstrap1(FileCmdLines1)
    \/ parseFlags(FileCmdLines2)
    \/ processConfigurationFile
    \/ processConfigurationCli
    \/ bootstrap
    \/ ScanLine(SeedLines, MaxFileSeeds)
    \/ ScanEnd(TRUE)
    \/ LoopOutput
    \/ Compute
    \/ LoopExit
    \/ FinalOutput

SpecFile == InitFile /\ [][NextFile]_vars

\* the configuration file is read and gives world dimensions
FileGivesWorld ==
    /\ variant = 2
    /\ flagConfigurationFile
    /\ cf.exists
    /\ \/ cf.WorldDimensions.X.Minimum # 0
       \/ cf.WorldDimensions.X.Maximum # 0
       \/ cf.WorldDimensions.Y.Minimum # 0
       \/ cf.WorldDimensions.Y.Maximum # 0

\* C13: when the configuration file gives world dimensions and no -world
\* flag overrides them, the World of the run has minX = x.minimum,
\* maxX = x.maximum, minY = y.minimum and maxY = y.maximum of the file
C13_FileWorld ==
    (Configured /\ FileGivesWorld /\ flagWorldDimensions = <<>>) =>
        /\ worldMinX = cf.WorldDimensions.X.Minimum
        /\ worldMaxX = cf.WorldDimensions.X.Maximum
        /\ worldMinY = cf.WorldDimensions.Y.Minimum
        /\ worldMaxY = cf.WorldDimensions.Y.Maximum

\* C14: no seed is inserted and no tick is computed with a birth or
\* survival set that has an entry below 1, whether the set comes from the
\* command line or from the configuration file
C14_PositiveRuleSets ==
    (organisms # EmptyOrganisms \/ Len(generations) >= 2 \/ pc = "compute") =>
        PositiveRules

----------------------------------------------------------------------------
(* SpecRoundTrip: runs whose input stream is given as a whole: the records  *)
(* "(x,y)" of a set of cells, or the Life 1.06 text the program writes for  *)
(* that set                                                                 *)

\* cells of a generation that is written and read back
MaxRoundTripCells == 2

RoundTripSets ==
    {S \in SUBSET (SeedCoords \X SeedCoords) : Cardinality(S) <= MaxRoundTripCells}

\* a Live-Set whose entries are the alive cells S
AliveOnly(S) ==
    [x \in {c[1] : c \in S} |-> [y \in {c[2] : c \in {d \in S : d[1] = x}} |-> 1]]

\* the records "(x,y)" of the cells S, ascending
Records(S) ==
    LET cells == AscendingEntries(AliveOnly(S))
    IN  [i \in 1..Len(cells) |-> SeedText(cells[i][1], cells[i][2])]

RoundTripInputs ==
    {Unread(Records(S)) : S \in RoundTripSets}
    \cup {Unread(outputOrganisms(AliveOnly(S))) : S \in RoundTripSets}

\* -ticks 0 and -ticks 1
RoundTripCmdLines1 ==
    {CmdLine(<<t>>, w, FALSE, SquareWorld, <<>>, <<>>, <<>>, FALSE) :
        t \in {0, 1}, w \in BOOLEAN}

RoundTripCmdLines2 ==
    {CmdLine(<<t>>, TRUE, nw, SquareWorld, <<>>, <<>>, <<>>, FALSE) :
        t \in {0, 1}, nw \in BOOLEAN}

InitRoundTrip == InitWithInput({NoFile}, RoundTripInputs)

NextRoundTrip ==
    \/ Bootstrap1(RoundTripCmdLines1)
    \/ parseFlags(RoundTripCmdLines2)
    \/ processConfigurationFile
    \/ processConfigurationCli
    \/ bootstrap
    \/ ScanStdin
    \/ ScanEnd(stdin.pos = Len(stdin.lines))
    \/ LoopOutput
    \/ Compute
    \/ LoopExit
    \/ FinalOutput

SpecRoundTrip == InitRoundTrip /\ [][NextRoundTrip]_vars

\* the input stream is the serialization of a generation
InputIsOutput == \E S \in RoundTripSets : stdin.lines = outputOrganisms(AliveOnly(S))

\* C15: a run given -ticks 0 whose input is the serialization of a
\* generation does not abort, and what it writes to the final sink is its
\* input, byte for byte
C15_RoundTrip ==
    (pc # "main" /\ flagTicks = 0 /\ InputIsOutput) =>
        /\ pc \notin {"fatal", "panic"}
        /\ pc = "exit" => output = <<stdin.lines>>

\* every existing neighbor of every alive coordinate of org has an entry
Halo(org) ==
    \A c \in AliveSet(org) :
        \A d \in ExistingCombinations(c[1], c[2]) :
            LET q == CombinationCoord(c[1], c[2], d)
            IN  HasEntry(org, q[1], q[2])

\* C16: in the Live-Set being seeded, in the seed generation and in the
\* result of every tick, each existing neighbor (under the bounds and the
\* wraparound rule of the World) of each alive coordinate has an entry, as
\* alive or as tracked-dead
C16_HaloInvariant ==
    Configured =>
        /\ Halo(organisms)
        /\ \A n \in 1..Len(generations) : Halo(generations[n])

\* a tick gave birth to a cell at the X maximum of a wrapping world; its
\* neighbor across the edge, at the X minimum, is a tracked-dead entry
C16_Witness ==
    /\ Len(generations) >= 2
    /\ Wraparound
    /\ worldMinX + 1 < worldMaxX
    /\ \E c \in AliveSet(organisms) :
           /\ c[1] = worldMaxX
           /\ ~IsAlive(generations[Len(generations) - 1], c)
           /\ HasEntry(organisms, worldMinX, c[2])
           /\ organisms[worldMinX][c[2]] = 0

\* the existing neighbors of the alive coordinates of org
HaloOf(org) ==
    UNION {{CombinationCoord(c[1], c[2], d) : d \in ExistingCombinations(c[1], c[2])} :
              c \in AliveSet(org)}

\* the entries of org are its alive coordinates and their existing
\* neighbors, and nothing else
Pruned(org) ==
    /\ Entries(org) = AliveSet(org) \cup HaloOf(org)
    /\ \A x \in DOMAIN org : DOMAIN org[x] # {}
    /\ AliveSet(org) = {} => org = EmptyOrganisms

\* C17: in the Live-Set being seeded, in the seed generation and in the
\* result of every tick, every coordinate with an entry is alive or an
\* existing neighbor of an alive coordinate: the entries are exactly the
\* alive cells and their dead halo, and a generation without an alive cell
\* has no entry at all
C17_DeadPruning ==
    Configured =>
        /\ Pruned(organisms)
        /\ \A n \in 1..Len(generations) : Pruned(generations[n])

\* a tick in which a cell died left alive cells with tracked-dead entries
\* around them and dropped tracked-dead entries of the generation before
C17_Witness ==
    /\ Len(generations) >= 2
    /\ AliveSet(organisms) # {}
    /\ Entries(organisms) # AliveSet(organisms)
    /\ LET before == generations[Len(generations) - 1]
       IN  /\ AliveSet(before) \ AliveSet(organisms) # {}
           /\ (Entries(before) \ AliveSet(before)) \ Entries(organisms) # {}

\* the distinct alive coordinates among the neighbors looked up for c in
\* the generation that was ticked last
DistinctAliveNeighbors(c) ==
    {q \in {lookups[c][i] : i \in 1..Len(lookups[c])} :
        IsAlive(generations[Len(generations) - 1], q)}

\* C18: in a wrapping world no coordinate is counted twice toward the
\* neighbor total of a cell: the alive neighbors added to the count are
\* pairwise distinct, so the count is the number of distinct alive
\* neighbor coordinates
C18_NoDoubleCount ==
    (Configured /\ Wraparound) =>
        \A c \in DOMAIN lookups :
            /\ \A i, j \in 1..Len(lookups[c]) :
                   (i # j /\ lookups[c][i] = lookups[c][j]) =>
                       ~IsAlive(generations[Len(generations) - 1], lookups[c][i])
            /\ neighborsAlive(generations[Len(generations) - 1], c[1], c[2]) =
                   Cardinality(DistinctAliveNeighbors(c))

----------------------------------------------------------------------------
(* SpecStep: runs of one tick in which the tick is taken entry by entry,    *)
(* the entries of the generation visited in every order                     *)

\* seeds read in the runs of SpecStep
MaxStepSeeds == 3

\* the seeds lie in the columns 0 and 1
StepLines == {SeedText(x, y) : x \in {0, 1}, y \in SeedCoords}

StepCmdLines1 ==
    {CmdLine(<<1>>, w, FALSE, SquareWorld, <<>>, <<>>, <<>>, FALSE) : w \in BOOLEAN}

StepCmdLines2 ==
    {CmdLine(<<1>>, TRUE, nw, SquareWorld, <<>>, <<>>, <<>>, FALSE) : nw \in BOOLEAN}

InitStep == InitWith({NoFile})

NextStep ==
    \/ Bootstrap1(StepCmdLines1)
    \/ parseFlags(StepCmdLines2)
    \/ processConfigurationFile
    \/ processConfigurationCli
    \/ bootstrap
    \/ ScanLine(StepLines, MaxStepSeeds)
    \/ ScanEnd(TRUE)
    \/ LoopOutput
    \/ Visit
    \/ EndTick
    \/ LoopExit
    \/ FinalOutput

SpecStep == InitStep /\ [][NextStep]_vars

\* the entries visited so far, ascending
VisitedAscending == SelectSeq(AscendingEntries(organisms), LAMBDA e : e \in visited)

\* C19: whatever the order in which the entries of the current generation
\* were visited, the Live-Set under construction is the one the ascending
\* order builds from the same entries (same alive entries, same tracked-dead
\* entries, same output); so every generation is the result of the tick
\* taken in ascending order, and each decision is the rule applied to the
\* prior generation
C19_OrderIndependence ==
    /\ pc = "compute" =>
           LET built == TickOver(organisms, EmptyOrganisms, VisitedAscending)
           IN  /\ organismsNext = built
               /\ outputOrganisms(organismsNext) = outputOrganisms(built)
               /\ \A e \in visited : IsAlive(organismsNext, e) <=> RuleSaysAlive(organisms, e)
    /\ \A n \in 1..(Len(generations) - 1) :
           generations[n + 1] =
               TickOver(generations[n], EmptyOrganisms, AscendingEntries(generations[n]))

\* a tick under way in which an entry that lives was visited before an
\* entry that precedes it in ascending order: two cells live in the new
\* Live-Set and an entry below one of them has not been visited
C19_Witness ==
    /\ pc = "compute"
    /\ Cardinality(AliveSet(organismsNext)) >= 2
    /\ Entries(organismsNext) # AliveSet(organismsNext)
    /\ \E a \in AliveSet(organismsNext) :
           \E b \in Entries(organisms) \ visited :
               LexLess(b, a) /\ RuleSaysAlive(organisms, b)

\* C20: while a tick is under way the current generation has exactly the
\* entries and the states it had when the tick started, however many
\* entries were visited and added to the new Live-Set; hasLife on a
\* coordinate that is absent or tracked-dead returns 0 and leaves the map
\* as it was
C20_PriorGenerationUnchanged ==
    pc = "compute" =>
        /\ organisms = generations[Len(generations)]
        /\ \A q \in WorldCells :
               ~IsAlive(organisms, q) =>
                   hasLifeCall(organisms, q[1], q[2]) = [value |-> 0, organisms |-> organisms]
        /\ \A e \in Entries(organisms) :
               CountNeighbors(organisms, NeighborLookups(e[1], e[2])).organisms = organisms

\* every entry of a generation was visited, cells were added to the new
\* Live-Set, and hasLife was called for coordinates without an entry and
\* for tracked-dead ones
C20_Witness ==
    /\ pc = "compute"
    /\ visited = Entries(organisms)
    /\ AliveSet(organismsNext) # {}
    /\ organismsNext # organisms
    /\ \E e \in visited :
           \E i \in 1..Len(NeighborLookups(e[1], e[2])) :
               LET q == NeighborLookups(e[1], e[2])[i]
               IN  ~HasEntry(organisms, q[1], q[2])
    /\ \E e \in visited :
           \E i \in 1..Len(NeighborLookups(e[1], e[2])) :
               LET q == NeighborLookups(e[1], e[2])[i]
               IN  HasEntry(organisms, q[1], q[2]) /\ organisms[q[1]][q[2]] = 0

----------------------------------------------------------------------------
(* SpecEdge: runs seeded at the ends of the int64 range, in the default     *)
(* World and in a small one that leaves those seeds outside                 *)

\* seeds read in the runs of SpecEdge
MaxEdgeSeeds == 3

EdgeCoords == {MinInt64, -1, 0, MaxInt64}

EdgeLines == {SeedText(x, y) : x \in EdgeCoords, y \in EdgeCoords}

\* -world not given (the full range) and -world "-1:1;-1:1"
EdgeWorlds == {<<>>, <<WorldText(-1, 1, -1, 1)>>}

EdgeCmdLines1 ==
    {CmdLine(<<MaxTicks>>, w, FALSE, world, <<>>, <<>>, <<>>, FALSE) :
        w \in BOOLEAN, world \in EdgeWorlds}

EdgeCmdLines2 ==
    {CmdLine(<<MaxTicks>>, TRUE, nw, world, <<>>, <<>>, <<>>, FALSE) :
        nw \in BOOLEAN, world \in EdgeWorlds}

InitEdge == InitWith({NoFile})

NextEdge ==
    \/ Bootstrap1(EdgeCmdLines1)
    \/ parseFlags(EdgeCmdLines2)
    \/ processConfigurationFile
    \/ processConfigurationCli
    \/ bootstrap
    \/ ScanLine(EdgeLines, MaxEdgeSeeds)
    \/ ScanEnd(TRUE)
    \/ LoopOutput
    \/ Compute
    \/ LoopExit
    \/ FinalOutput

SpecEdge == InitEdge /\ [][NextEdge]_vars

\* the entries of org lie in the World, and the steps coord - 1 and
\* coord + 1 the resolver takes from them stay in the int64 range
WithinWorld(org) ==
    \A e \in Entries(org) :
        /\ InWorld(e)
        /\ e[1] # worldMinX => e[1] - 1 \in Int64 /\ getNeighborsX(e[1]).left = e[1] - 1
        /\ e[1] # worldMaxX => e[1] + 1 \in Int64 /\ getNeighborsX(e[1]).right = e[1] + 1
        /\ e[2] # worldMinY => e[2] - 1 \in Int64 /\ getNeighborsY(e[2]).bottom = e[2] - 1
        /\ e[2] # worldMaxY => e[2] + 1 \in Int64 /\ getNeighborsY(e[2]).top = e[2] + 1

\* C21: every coordinate with an entry, alive or tracked-dead, in the
\* Live-Set being seeded and in every generation of the run, lies within
\* the inclusive bounds of the World on both axes; coord - 1 is computed
\* only above the axis minimum and coord + 1 only below the axis maximum,
\* so no coordinate wraps around the int64 range; a record outside the
\* bounds ends the run before any tick
C21_EntriesInWorld ==
    /\ Configured =>
           /\ WithinWorld(organisms)
           /\ \A n \in 1..Len(generations) : WithinWorld(generations[n])
    /\ pc = "fatal" => Len(generations) = 0

\* a finished run in the default World, wrapping, in which cells are alive
\* at the minimum and at the maximum of the int64 range on the X axis
C21_Witness ==
    /\ pc = "exit"
    /\ Wraparound
    /\ worldMinX = MinInt64 /\ worldMaxX = MaxInt64
    /\ worldMinY = MinInt64 /\ worldMaxY = MaxInt64
    /\ Len(generations) >= 2
    /\ \E a, b \in AliveSet(organisms) : a[1] = MinInt64 /\ b[1] = MaxInt64
    /\ Entries(organisms) # AliveSet(organisms)

----------------------------------------------------------------------------
(* SpecDisk: runs that write their output to files, on a disk that may      *)
(* hold the files of an earlier run                                         *)

MaxDiskSeeds == 2

DiskLines == {SeedText(x, y) : x \in {0, 1}, y \in {0, 1}}

OutFileName == <<"l", "i", "f", "e">>

\* the per-tick files of a run of one tick into the directory "out"
TickFileNames ==
    {OutDirName \o <<"/">> \o FormatPadded(t, 1) \o <<".", "t", "x", "t">> : t \in 0..1}

\* what an earlier run left in a file: the output of five alive cells, of
\* an empty world, and of a run that was stopped within the header
EarlierContents ==
    {Bytes(<<Header, <<"0", " ", "0">>, <<"0", " ", "1">>, <<"1", " ", "0">>,
             <<"1", " ", "1">>, <<"2", " ", "2">>>>),
     Bytes(<<Header>>),
     <<"#", "L", "i">>}

\* the disk before the run: no file, or one output file of an earlier run
EarlierDisks ==
    {NoFiles} \cup
    {[n \in {name} |-> content] :
        name \in {OutFileName} \cup TickFileNames, content \in EarlierContents}

\* a configuration file that names the output file
OutputFileConfig ==
    [ConfigFile(0, FALSE, 0, 0, 0, 0, <<>>, <<>>, <<>>) EXCEPT !.OutputFile = OutFileName]

DiskCmdLines1 ==
    {WithOutput(CmdLine(<<1>>, TRUE, FALSE, SquareWorld, <<>>, <<>>, outdir, FALSE), file) :
        outdir \in {<<>>, OutDirName}, file \in {<<>>, OutFileName}}

DiskCmdLines2 ==
    {WithOutput(CmdLine(<<1>>, TRUE, TRUE, SquareWorld, <<>>, <<>>, outdir, c), file) :
        outdir \in {<<>>, OutDirName}, file \in {<<>>, OutFileName}, c \in BOOLEAN}

InitDisk == InitOn({NoFile, OutputFileConfig}, {Unread(<<>>)}, EarlierDisks)

NextDisk ==
    \/ Bootstrap1(DiskCmdLines1)
    \/ parseFlags(DiskCmdLines2)
    \/ processConfigurationFile
    \/ processConfigurationCli
    \/ bootstrap
    \/ ScanLine(DiskLines, MaxDiskSeeds)
    \/ ScanEnd(TRUE)
    \/ LoopOutput
    \/ Compute
    \/ LoopExit
    \/ FinalOutput

SpecDisk == InitDisk /\ [][NextDisk]_vars

\* C22: after a run each output file, the final output file and every
\* per-tick file, holds exactly the serialization written to it in this run
\* (the header and one line per alive cell) and nothing else, whatever the
\* file held before the run.
C22_FilesHoldThisRun ==
    pc = "exit" =>
        /\ \A k \in 1..Len(outputDirectory) :
               /\ outputDirectory[k].name \in DOMAIN disk
               /\ disk[outputDirectory[k].name] = Bytes(outputDirectory[k].content)
        /\ OutputFile # <<>> =>
               /\ OutputFile \in DOMAIN disk
               /\ disk[OutputFile] = Bytes(output[Len(output)])

====
